---------------------------- MODULE Spec2Model ----------------------------
(***************************************************************************)
(* Model of MySql/JSON_Scripts/generate_ml_baselines_sql.py                *)
(* (class MLBaselinesConverter): the JSON-to-SQL converter.                *)
(*                                                                         *)
(* JSON values are tagged records (t = "null", "bool", "int", "float",     *)
(* "str", "list", "dict").  A Python str is a sequence of tokens: each     *)
(* token is one of the special characters the code treats (single quote,   *)
(* double quote, newline, carriage return, backslash) or a chunk of        *)
(* ordinary text.  A dict is the ordered sequence of its items.  A float   *)
(* is an exact decimal num/den; binary rounding is not modelled.           *)
(***************************************************************************)
EXTENDS Integers, Sequences, FiniteSets, TLC

VARIABLES
    files,                      \* the processed folder: catalogue key -> file
    pc,                         \* position of the running operation
    json_files,                 \* detect_json_files(): keys found, in order
    idx,                        \* convert_all: files of json_files consumed
    sql_sections,               \* self.sql_sections
    section4_header_written,    \* self.section4_header_written
    output,                     \* the written document (a fragment sequence)
    write_error,                \* the write of the document raised (line 598)
    result,                     \* what convert_all returned
    arg,                        \* the argument of the call
    ret,                        \* what escape_sql_string returned
    calls                       \* earlier calls made on this converter

vars == <<files, pc, json_files, idx, sql_sections, section4_header_written,
          output, write_error, result, arg, ret, calls>>

-----------------------------------------------------------------------------
(* Text *)

QUOTE == "'"
DQUOTE == "\""
NL == "\n"
CR == "\r"
BSLASH == "\\"

Digits == <<"0", "1", "2", "3", "4", "5", "6", "7", "8", "9">>

RECURSIVE NatText(_)
NatText(n) == IF n < 10 THEN Digits[n + 1]
              ELSE NatText(n \div 10) \o Digits[(n % 10) + 1]

\* str(int)
IntText(n) == IF n < 0 THEN "-" \o NatText(-n) ELSE NatText(n)

\* the fractional digits of num/den (den a power of ten), without trailing zeros
RECURSIVE FracText(_, _)
FracText(r, den) ==
    IF r = 0 \/ den = 1 THEN ""
    ELSE Digits[((r * 10) \div den) + 1] \o FracText((r * 10) % den, den \div 10)

\* str(float) of a decimal in the range Python prints without an exponent
FloatText(num, den) ==
    LET a == IF num < 0 THEN -num ELSE num
        f == FracText(a % den, den)
    IN  (IF num < 0 THEN "-" ELSE "") \o NatText(a \div den) \o "."
            \o (IF f = "" THEN "0" ELSE f)

\* str.replace(old, new) for a one-character old
Replace(text, old, new) ==
    LET RECURSIVE Go(_)
        Go(i) == IF i > Len(text) THEN <<>>
                 ELSE (IF text[i] = old THEN new ELSE <<text[i]>>) \o Go(i + 1)
    IN  Go(1)

\* sep.join(parts)
Join(sep, parts) ==
    LET RECURSIVE Go(_)
        Go(i) == IF i > Len(parts) THEN <<>>
                 ELSE (IF i = 1 THEN <<>> ELSE sep) \o parts[i] \o Go(i + 1)
    IN  Go(1)

-----------------------------------------------------------------------------
(* JSON values as json.load returns them *)

JNone == [t |-> "null"]
JBool(b) == [t |-> "bool", b |-> b]
JInt(n) == [t |-> "int", n |-> n]
JFloat(num, den) == [t |-> "float", num |-> num, den |-> den]
JStr(s) == [t |-> "str", s |-> s]
JList(items) == [t |-> "list", items |-> items]
JDict(kv) == [t |-> "dict", kv |-> kv]
Item(k, v) == [k |-> k, v |-> v]

\* isinstance(value, types): bool is a subclass of int
IsInstance(value, types) ==
    value.t \in types \/ (value.t = "bool" /\ "int" \in types)

\* bool(value)
Truthy(v) ==
    CASE v.t = "null" -> FALSE
      [] v.t = "bool" -> v.b
      [] v.t = "int" -> v.n # 0
      [] v.t = "float" -> v.num # 0
      [] v.t = "str" -> Len(v.s) > 0
      [] v.t = "list" -> Len(v.items) > 0
      [] v.t = "dict" -> Len(v.kv) > 0

\* key in d
HasKey(d, k) == \E i \in 1..Len(d.kv) : d.kv[i].k = k

\* d[key]
Lookup(d, k) == d.kv[CHOOSE i \in 1..Len(d.kv) : d.kv[i].k = k].v

\* d.get(key, default)
Get(d, k, default) == IF HasKey(d, k) THEN Lookup(d, k) ELSE default

\* a or b
Or(a, b) == IF Truthy(a) THEN a ELSE b

\* repr(str)
StrRepr(s) ==
    LET hasQ == \E i \in 1..Len(s) : s[i] = QUOTE
        hasD == \E i \in 1..Len(s) : s[i] = DQUOTE
        q == IF hasQ /\ ~hasD THEN DQUOTE ELSE QUOTE
        RECURSIVE Go(_)
        Go(i) == IF i > Len(s) THEN <<>>
                 ELSE (CASE s[i] = BSLASH -> <<BSLASH, BSLASH>>
                         [] s[i] = NL -> <<BSLASH, "n">>
                         [] s[i] = CR -> <<BSLASH, "r">>
                         [] s[i] = q -> <<BSLASH, q>>
                         [] OTHER -> <<s[i]>>) \o Go(i + 1)
    IN  <<q>> \o Go(1) \o <<q>>

\* repr(value)
RECURSIVE PyRepr(_)
PyRepr(v) ==
    CASE v.t = "null" -> <<"None">>
      [] v.t = "bool" -> IF v.b THEN <<"True">> ELSE <<"False">>
      [] v.t = "int" -> <<IntText(v.n)>>
      [] v.t = "float" -> <<FloatText(v.num, v.den)>>
      [] v.t = "str" -> StrRepr(v.s)
      [] v.t = "list" ->
            <<"[">> \o Join(<<", ">>, [i \in 1..Len(v.items) |-> PyRepr(v.items[i])])
                \o <<"]">>
      [] v.t = "dict" ->
            <<"{">> \o Join(<<", ">>,
                            [i \in 1..Len(v.kv) |->
                                StrRepr(v.kv[i].k) \o <<": ">> \o PyRepr(v.kv[i].v)])
                \o <<"}">>

\* str(value), also what an f-string field {value} renders
PyStr(v) == IF v.t = "str" THEN v.s ELSE PyRepr(v)

-----------------------------------------------------------------------------
(* escape_sql_string *)

\* escape_sql_string without the doubling of single quotes
escape_sql_string_no_quote(value) ==
    IF value.t = "null" THEN <<"NULL">>
    ELSE IF IsInstance(value, {"int", "float"}) THEN PyStr(value)
    ELSE Replace(Replace(Replace(PyStr(value),
                DQUOTE, <<DQUOTE, DQUOTE>>),
                NL, <<" ">>),
                CR, <<" ">>)

escape_sql_string(value) ==
    IF value.t = "null" THEN <<"NULL">>
    ELSE IF IsInstance(value, {"int", "float"}) THEN PyStr(value)
    ELSE IF IsInstance(value, {"bool"}) THEN (IF value.b THEN <<"1">> ELSE <<"0">>)
    ELSE Replace(Replace(Replace(Replace(PyStr(value),
                QUOTE, <<QUOTE, QUOTE>>),
                DQUOTE, <<DQUOTE, DQUOTE>>),
                NL, <<" ">>),
                CR, <<" ">>)

-----------------------------------------------------------------------------
(* SQL fragments: the elements of self.sql_sections and of the document *)

Banner(table) == [k |-> "banner", table |-> table, tuples |-> <<>>]
InsertInto(table) == [k |-> "insert", table |-> table, tuples |-> <<>>]
ValuesBlock(tuples) == [k |-> "values", table |-> "", tuples |-> tuples]
Blank == [k |-> "blank", table |-> "", tuples |-> <<>>]

\* one column of a value tuple: '{text}' or {text}
Quoted(text) == [q |-> TRUE, text |-> text]
Raw(text) == [q |-> FALSE, text |-> text]

\* a dict key or a str literal of the code
K(name) == <<name>>

batch_size == 1000

Min(a, b) == IF a < b THEN a ELSE b

\* one INSERT for all the values, whatever their number
Batches_unsplit(table, values, i) ==
    IF Len(values) = 0 THEN <<>> ELSE <<InsertInto(table), ValuesBlock(values)>>

\* for i in range(0, len(values), batch_size): the INSERT line and its batch
RECURSIVE Batches(_, _, _)
Batches(table, values, i) ==
    IF i >= Len(values) THEN <<>>
    ELSE <<InsertInto(table),
           ValuesBlock(SubSeq(values, i + 1, Min(i + batch_size, Len(values))))>>
            \o Batches(table, values, i + batch_size)

\* for key in possible_keys: if key in data and isinstance(data[key], list): break
FirstListUnder(data, possible_keys) ==
    LET hits == {i \in 1..Len(possible_keys) :
                    /\ HasKey(data, possible_keys[i])
                    /\ IsInstance(Lookup(data, possible_keys[i]), {"list"})}
    IN  IF hits = {} THEN <<>>
        ELSE Lookup(data, possible_keys[CHOOSE i \in hits : \A j \in hits : i <= j]).items

\* the positions of the records that pass isinstance(record, dict)
DictIndexes(items) ==
    SelectSeq([i \in 1..Len(items) |-> i], LAMBDA i : IsInstance(items[i], {"dict"}))

\* what an extractor leaves: the converter's fields, and whether it raised
Outcome(sections, flag, raised) ==
    [sql_sections |-> sections, section4_header_written |-> flag, raised |-> raised]

-----------------------------------------------------------------------------
(* process_behavioral_anomalies *)

AnomalyFields == {K("customer_id"), K("customerid"), K("severity"), K("changes")}

AnomalyRecords(data) ==
    IF IsInstance(data, {"dict"}) THEN
        LET named == FirstListUnder(data,
                        <<K("customer_anomalies"), K("behavioral_anomalies"), K("anomalies")>>)
            scan == {i \in 1..Len(data.kv) :
                        LET value == data.kv[i].v
                        IN  /\ IsInstance(value, {"list"})
                            /\ Truthy(value)
                            /\ IsInstance(value.items[1], {"dict"})
                            /\ \E field \in AnomalyFields : HasKey(value.items[1], field)}
        IN  IF Len(named) > 0 THEN named
            ELSE IF scan = {} THEN <<>>
            ELSE data.kv[CHOOSE i \in scan : \A j \in scan : i <= j].v.items
    ELSE IF IsInstance(data, {"list"}) THEN data.items
    ELSE <<>>

AnomalyTuple(record, record_count) ==
    LET customer_id == Or(Or(Get(record, K("customer_id"), JNone),
                             Get(record, K("customerid"), JNone)),
                          JStr(<<"UNKNOWN_" \o IntText(record_count)>>))
        customer_segment == Get(record, K("customer_segment"),
                                Get(record, K("customersegment"), JStr(K("Unknown"))))
        value_tier == Get(record, K("value_tier"),
                          Get(record, K("valuetier"), JStr(K("Unknown"))))
        severity == Or(Or(Get(record, K("severity"), JNone),
                          Get(record, K("anomaly_severity"), JNone)),
                       Get(record, K("riskscore"), JStr(K("Normal"))))
        flags == Or(Or(Get(record, K("flags"), JNone),
                       Get(record, K("anomaly_flags"), JNone)),
                    Get(record, K("riskscore"), JInt(0)))
        types0 == Or(Or(Get(record, K("types"), JNone),
                        Get(record, K("anomaly_types"), JNone)),
                     Get(record, K("changes"), JStr(<<>>)))
        types == IF IsInstance(types0, {"list"})
                 THEN JStr(Join(<<",">>,
                            [i \in 1..Len(types0.items) |-> PyStr(types0.items[i])]))
                 ELSE types0
    IN  <<Quoted(escape_sql_string(customer_id)),
          Quoted(escape_sql_string(customer_segment)),
          Quoted(escape_sql_string(value_tier)),
          Quoted(escape_sql_string(severity)),
          Raw(PyStr(flags)),
          Quoted(escape_sql_string(types))>>

AnomalyValues(anomaly_records) ==
    LET at == DictIndexes(anomaly_records)
    IN  [j \in 1..Len(at) |-> AnomalyTuple(anomaly_records[at[j]], j - 1)]

process_behavioral_anomalies(self, data) ==
    IF ~Truthy(data) THEN Outcome(self.sql_sections, self.section4_header_written, FALSE)
    ELSE
        LET values == AnomalyValues(AnomalyRecords(data))
        IN  Outcome(self.sql_sections \o <<Banner("customer_anomalies")>>
                        \o (IF Len(values) > 0
                            THEN Batches("customer_anomalies", values, 0) \o <<Blank>>
                            ELSE <<>>),
                    self.section4_header_written, FALSE)

-----------------------------------------------------------------------------
(* process_customer_baselines *)

\* f'{i:06d}'
ZeroPad6(i) ==
    LET d == IntText(i)
        RECURSIVE Pad(_)
        Pad(t) == IF Len(t) >= 6 THEN t ELSE Pad("0" \o t)
    IN  Pad(d)

BaselineRecords(data) ==
    IF IsInstance(data, {"dict"})
    THEN FirstListUnder(data, <<K("customer_intelligence_records"), K("customer_baselines"),
                                K("customers"), K("customerintelligencerecords")>>)
    ELSE <<>>

BaselineTuple(record, i) ==
    LET customer_id == Or(Or(Get(record, K("customer_id"), JNone),
                             Get(record, K("customerid"), JNone)),
                          JStr(<<"CUST_" \o ZeroPad6(i)>>))
        health_score == Get(record, K("customer_health_score"),
                            Get(record, K("health_score"), JFloat(500, 10)))
        frequency_score == Get(record, K("frequency_count"),
                               Get(record, K("frequency_score"), JInt(0)))
        monetary_value == Get(record, K("monetary_total"),
                              Get(record, K("monetary_value"), JFloat(0, 10)))
        recency_days == Get(record, K("recency_days"), JInt(0))
        value_tier == Get(record, K("value_tier"), JStr(K("Medium")))
        activity_segment == Get(record, K("activity_segment"),
                                Get(record, K("activitysegment"), JStr(K("Unknown"))))
        clv_score == Get(record, K("clv_score"),
                         Get(record, K("clvscore"), JFloat(0, 10)))
        customer_health_score == Get(record, K("customer_health_score"),
                                     Get(record, K("customerhealthscore"), health_score))
        customer_segment == Get(record, K("customer_segment"),
                                Get(record, K("customersegment"), JStr(K("Standard"))))
    IN  <<Quoted(escape_sql_string(customer_id)),
          Raw(PyStr(health_score)),
          Raw(PyStr(frequency_score)),
          Raw(PyStr(monetary_value)),
          Raw(PyStr(recency_days)),
          Quoted(escape_sql_string(value_tier)),
          Quoted(escape_sql_string(activity_segment)),
          Raw(PyStr(clv_score)),
          Raw(PyStr(customer_health_score)),
          Quoted(escape_sql_string(customer_segment))>>

BaselineValues(baseline_records) ==
    LET at == DictIndexes(baseline_records)
    IN  [j \in 1..Len(at) |-> BaselineTuple(baseline_records[at[j]], at[j] - 1)]

process_customer_baselines(self, data) ==
    IF ~Truthy(data) THEN Outcome(self.sql_sections, self.section4_header_written, FALSE)
    ELSE
        LET values == BaselineValues(BaselineRecords(data))
        IN  Outcome(self.sql_sections \o <<Banner("customer_baselines")>>
                        \o (IF Len(values) > 0
                            THEN Batches("customer_baselines", values, 0) \o <<Blank>>
                            ELSE <<>>),
                    self.section4_header_written, FALSE)

-----------------------------------------------------------------------------
(* process_segment_performance *)

SegmentRecords(data) ==
    IF IsInstance(data, {"dict"})
    THEN FirstListUnder(data, <<K("channel_performance"), K("segment_baselines"),
                                K("segmentbaselines")>>)
    ELSE <<>>

SegmentTuple(record) ==
    LET segment == Get(record, K("customer_segment"),
                       Get(record, K("segment"), JStr(K("Unknown"))))
        channel == Get(record, K("sales_channel"),
                       Get(record, K("channel"), JStr(K("Unknown"))))
        region == Get(record, K("region"), JStr(K("Unknown")))
        total_revenue == Get(record, K("total_amount"),
                             Get(record, K("total_revenue"), JFloat(0, 10)))
        transaction_count == Get(record, K("transaction_count"),
                                 Get(record, K("count"), JInt(0)))
        avg_transaction_value == Get(record, K("avg_transaction_value"), JFloat(0, 10))
        market_share_pct == Get(record, K("market_share_pct"), JFloat(0, 10))
    IN  <<Quoted(escape_sql_string(segment)),
          Quoted(escape_sql_string(channel)),
          Quoted(escape_sql_string(region)),
          Raw(PyStr(total_revenue)),
          Raw(PyStr(transaction_count)),
          Raw(PyStr(avg_transaction_value)),
          Raw(PyStr(market_share_pct))>>

SegmentValues(segment_data) ==
    LET at == DictIndexes(segment_data)
    IN  [j \in 1..Len(at) |-> SegmentTuple(segment_data[at[j]])]

\* process_segment_performance assigning a new list to self.sql_sections
\* where the code appends to it
process_segment_performance_new_list(self, data) ==
    IF ~Truthy(data) THEN Outcome(self.sql_sections, self.section4_header_written, FALSE)
    ELSE
        LET values == SegmentValues(SegmentRecords(data))
        IN  Outcome(<<Banner("segment_performance")>>
                        \o (IF Len(values) > 0
                            THEN <<InsertInto("segment_performance"), ValuesBlock(values),
                                   Blank>>
                            ELSE <<>>),
                    self.section4_header_written, FALSE)

process_segment_performance(self, data) ==
    IF ~Truthy(data) THEN Outcome(self.sql_sections, self.section4_header_written, FALSE)
    ELSE
        LET values == SegmentValues(SegmentRecords(data))
        IN  Outcome(self.sql_sections \o <<Banner("segment_performance")>>
                        \o (IF Len(values) > 0
                            THEN <<InsertInto("segment_performance"), ValuesBlock(values),
                                   Blank>>
                            ELSE <<>>),
                    self.section4_header_written, FALSE)

-----------------------------------------------------------------------------
(* process_ml_baselines *)

\* value * 1.2 and value * 0.8 raise TypeError unless value is a number
\* (int, float or bool)
CanScale(value) == IsInstance(value, {"int", "float"})

\* value * 1.2 whichever factor is asked for
Scale_always_upper(value, tenths) ==
    CASE value.t = "int" -> JFloat(value.n * 12, 10)
      [] value.t = "bool" -> JFloat((IF value.b THEN 1 ELSE 0) * 12, 10)
      [] value.t = "float" -> JFloat(value.num * 12, value.den * 10)

\* value * (tenths / 10) for a number
Scale(value, tenths) ==
    CASE value.t = "int" -> JFloat(value.n * tenths, 10)
      [] value.t = "bool" -> JFloat((IF value.b THEN 1 ELSE 0) * tenths, 10)
      [] value.t = "float" -> JFloat(value.num * tenths, value.den * 10)

\* float(value) for a number
ToFloat(value) ==
    CASE value.t = "int" -> JFloat(value.n, 1)
      [] value.t = "bool" -> JFloat(IF value.b THEN 1 ELSE 0, 1)
      [] value.t = "float" -> value

\* the body of the inner loop for one metric: the value tuple appended, or
\* the exception raised by the arithmetic
MetricRow(dimension, metric_name, metric_data, source_name) ==
    LET isDict == IsInstance(metric_data, {"dict"})
        baseline_value ==
            IF isDict
            THEN Get(metric_data, K("baseline"), Get(metric_data, K("mean"), JFloat(0, 10)))
            ELSE IF IsInstance(metric_data, {"int", "float"}) THEN ToFloat(metric_data)
            ELSE JFloat(0, 10)
        \* the defaults of the two .get calls are computed before the lookup
        raises == isDict /\ Truthy(baseline_value) /\ ~CanScale(baseline_value)
        threshold_upper ==
            IF isDict
            THEN Get(metric_data, K("upper_threshold"),
                     Get(metric_data, K("max"),
                         IF Truthy(baseline_value) THEN Scale(baseline_value, 12)
                         ELSE JInt(0)))
            ELSE Scale(baseline_value, 12)
        threshold_lower ==
            IF isDict
            THEN Get(metric_data, K("lower_threshold"),
                     Get(metric_data, K("min"),
                         IF Truthy(baseline_value) THEN Scale(baseline_value, 8)
                         ELSE JInt(0)))
            ELSE Scale(baseline_value, 8)
        data_source == JStr(source_name \o K(".json"))
    IN  IF raises THEN [raised |-> TRUE, row |-> <<>>]
        ELSE [raised |-> FALSE,
              row |-> <<Quoted(escape_sql_string(JStr(dimension))),
                        Quoted(escape_sql_string(JStr(metric_name))),
                        Raw(PyStr(baseline_value)),
                        Raw(PyStr(threshold_upper)),
                        Raw(PyStr(threshold_lower)),
                        Quoted(escape_sql_string(data_source))>>]

\* for metric_name, metric_data in metrics.items(), for one dimension
DimensionRows(dimension, metrics, source_name) ==
    IF IsInstance(metrics, {"dict"})
    THEN [j \in 1..Len(metrics.kv) |->
            MetricRow(dimension, metrics.kv[j].k, metrics.kv[j].v, source_name)]
    ELSE <<>>

\* for dimension, metrics in data.items(): the rows of all dimensions in order
RECURSIVE MetricRows(_, _, _)
MetricRows(data, d, source_name) ==
    IF d > Len(data.kv) THEN <<>>
    ELSE DimensionRows(data.kv[d].k, data.kv[d].v, source_name)
            \o MetricRows(data, d + 1, source_name)

\* process_ml_baselines without the section4_header_written test
process_ml_baselines_always_banner(self, data, source_name) ==
    IF ~Truthy(data) THEN Outcome(self.sql_sections, self.section4_header_written, FALSE)
    ELSE
        LET headed == self.sql_sections \o <<Banner("ml_baselines")>>
            rows == IF IsInstance(data, {"dict"}) THEN MetricRows(data, 1, source_name)
                    ELSE <<>>
            raised == \E j \in 1..Len(rows) : rows[j].raised
            values == [j \in 1..Len(rows) |-> rows[j].row]
        IN  IF raised THEN Outcome(headed, TRUE, TRUE)
            ELSE Outcome(headed \o (IF Len(values) > 0
                                    THEN <<InsertInto("ml_baselines"), ValuesBlock(values),
                                           Blank>>
                                    ELSE <<>>),
                         TRUE, FALSE)

process_ml_baselines(self, data, source_name) ==
    IF ~Truthy(data) THEN Outcome(self.sql_sections, self.section4_header_written, FALSE)
    ELSE
        LET headed == IF ~self.section4_header_written
                      THEN self.sql_sections \o <<Banner("ml_baselines")>>
                      ELSE self.sql_sections
            rows == IF IsInstance(data, {"dict"}) THEN MetricRows(data, 1, source_name)
                    ELSE <<>>
            raised == \E j \in 1..Len(rows) : rows[j].raised
            values == [j \in 1..Len(rows) |-> rows[j].row]
        IN  IF raised THEN Outcome(headed, TRUE, TRUE)
            ELSE Outcome(headed \o (IF Len(values) > 0
                                    THEN <<InsertInto("ml_baselines"), ValuesBlock(values),
                                           Blank>>
                                    ELSE <<>>),
                         TRUE, FALSE)

-----------------------------------------------------------------------------
(* The converter as MLBaselinesConverter.__init__ leaves it *)

NewConverter ==
    /\ sql_sections = <<>>
    /\ section4_header_written = FALSE
    /\ calls = 0

-----------------------------------------------------------------------------
(* convert_all *)

\* the catalogue with the metric-tree file ml_baselines declared first
file_patterns_ml_first ==
    <<"ml_baselines", "behavioral_anomalies", "customer_comprehensive", "customer_rfm",
      "customer_segments", "customer_value_tiers", "category_baselines",
      "product_anomalies", "executive_kpi_dashboard",
      "executive_insights_summary", "ml_baseline_consolidated">>

\* detect_json_files: the catalogue, in its declared order
file_patterns ==
    <<"behavioral_anomalies", "customer_comprehensive", "customer_rfm",
      "customer_segments", "customer_value_tiers", "category_baselines",
      "product_anomalies", "ml_baselines", "executive_kpi_dashboard",
      "executive_insights_summary", "ml_baseline_consolidated">>

CatalogueKeys == {file_patterns[i] : i \in 1..Len(file_patterns)}

\* the keys of convert_all's processors that call process_ml_baselines
MetricTreeKeys ==
    {"ml_baselines", "category_baselines", "product_anomalies",
     "executive_kpi_dashboard", "executive_insights_summary",
     "ml_baseline_consolidated"}

\* file_type in processors
HasProcessor(file_type) ==
    file_type \in {"behavioral_anomalies", "customer_comprehensive", "customer_segments"}
                    \cup MetricTreeKeys

\* processors[file_type](data)
Process(self, file_type, data) ==
    CASE file_type = "behavioral_anomalies" -> process_behavioral_anomalies(self, data)
      [] file_type = "customer_comprehensive" -> process_customer_baselines(self, data)
      [] file_type = "customer_segments" -> process_segment_performance(self, data)
      [] file_type \in MetricTreeKeys -> process_ml_baselines(self, data, K(file_type))

\* a file of the processed folder
Missing == [st |-> "missing", doc |-> JNone]
Unreadable == [st |-> "unreadable", doc |-> JNone]
File(doc) == [st |-> "ok", doc |-> doc]

\* detect_json_files that takes an unreadable file for a missing one
detect_json_files_readable_only(folder) ==
    SelectSeq(file_patterns, LAMBDA key : folder[key].st = "ok")

\* detect_json_files: the keys whose file exists, in catalogue order
detect_json_files(folder) ==
    SelectSeq(file_patterns, LAMBDA key : folder[key].st # "missing")

\* load_json_safe: the parsed document, None when reading or parsing fails
load_json_safe(file) == IF file.st = "ok" THEN file.doc ELSE JNone

\* generate_header and generate_footer, each one element of sql_content
Header == [k |-> "header", table |-> "", tuples |-> <<>>]
Footer == [k |-> "footer", table |-> "", tuples |-> <<>>]

\* the statements of a document that change table contents
Truncate(table) == [op |-> "truncate", table |-> table, tuples |-> <<>>]
ResetAutoIncrement(table) == [op |-> "reset", table |-> table, tuples |-> <<>>]
InsertStatement(table, tuples) == [op |-> "insert", table |-> table, tuples |-> tuples]

\* generate_header without the TRUNCATE of customer_anomalies
HeaderStatements_no_truncate ==
    <<Truncate("ml_baselines"), Truncate("customer_baselines"),
      Truncate("segment_performance"),
      ResetAutoIncrement("ml_baselines"), ResetAutoIncrement("customer_anomalies"),
      ResetAutoIncrement("customer_baselines"), ResetAutoIncrement("segment_performance")>>

\* generate_header, lines 463-473: the statements of the header that change
\* table contents (CREATE TABLE IF NOT EXISTS leaves an existing table as is)
HeaderStatements ==
    <<Truncate("ml_baselines"), Truncate("customer_anomalies"),
      Truncate("customer_baselines"), Truncate("segment_performance"),
      ResetAutoIncrement("ml_baselines"), ResetAutoIncrement("customer_anomalies"),
      ResetAutoIncrement("customer_baselines"), ResetAutoIncrement("segment_performance")>>

Self == [sql_sections |-> sql_sections,
         section4_header_written |-> section4_header_written]

\* lines 545-552: detection; no file found returns False
Detect ==
    /\ pc = "start"
    /\ json_files' = detect_json_files(files)
    /\ idx' = 0
    /\ IF Len(json_files') = 0
       THEN pc' = "done" /\ result' = "False"
       ELSE pc' = "loop" /\ result' = result
    /\ UNCHANGED <<files, sql_sections, section4_header_written, output,
                   write_error, arg, ret, calls>>

\* lines 567-574: one pass of the loop whose file loads and has a processor;
\* an exception of the processor leaves convert_all
Dispatch ==
    /\ pc = "loop" /\ idx < Len(json_files)
    /\ LET file_type == json_files[idx + 1]
           data == load_json_safe(files[file_type])
       IN  /\ Truthy(data) /\ HasProcessor(file_type)
           /\ LET o == Process(Self, file_type, data)
              IN  /\ sql_sections' = o.sql_sections
                  /\ section4_header_written' = o.section4_header_written
                  /\ IF o.raised
                     THEN pc' = "raised" /\ idx' = idx
                     ELSE pc' = "loop" /\ idx' = idx + 1
    /\ UNCHANGED <<files, json_files, output, write_error, result, arg, ret, calls>>

\* lines 567-576: one pass of the loop whose file is skipped
Skip ==
    /\ pc = "loop" /\ idx < Len(json_files)
    /\ LET file_type == json_files[idx + 1]
           data == load_json_safe(files[file_type])
       IN  ~(Truthy(data) /\ HasProcessor(file_type))
    /\ idx' = idx + 1
    /\ UNCHANGED <<files, pc, json_files, sql_sections, section4_header_written,
                   output, write_error, result, arg, ret, calls>>

\* lines 578-600: the document is assembled and written; a write that
\* raises returns False (no document counts as produced)
Write ==
    /\ pc = "loop" /\ idx = Len(json_files)
    /\ LET sql_content == <<Header>> \o sql_sections \o <<Footer>>
       IN  \E ok \in BOOLEAN :
              IF ok THEN output' = sql_content /\ write_error' = FALSE /\ result' = "True"
              ELSE output' = output /\ write_error' = TRUE /\ result' = "False"
    /\ pc' = "done"
    /\ UNCHANGED <<files, json_files, idx, sql_sections, section4_header_written,
                   arg, ret, calls>>

-----------------------------------------------------------------------------
(* Specification of one run of convert_all on a new converter, over a       *)
(* processed folder holding at most MaxPresent catalogued files.            *)

MaxPresent == 3

AnomalyDoc ==
    JDict(<<Item(K("anomalies"),
                 JList(<<JDict(<<Item(K("customer_id"), JStr(K("C1"))),
                                 Item(K("severity"), JStr(K("High")))>>)>>))>>)

BaselineDoc ==
    JDict(<<Item(K("customers"),
                 JList(<<JDict(<<Item(K("customer_id"), JStr(K("C1"))),
                                 Item(K("health_score"), JInt(70))>>)>>))>>)

SegmentDoc ==
    JDict(<<Item(K("segment_baselines"),
                 JList(<<JDict(<<Item(K("segment"), JStr(K("Premium")))>>)>>))>>)

MetricDoc ==
    JDict(<<Item(K("revenue"),
                 JDict(<<Item(K("daily"), JDict(<<Item(K("baseline"), JInt(100))>>))>>))>>)

\* a metric whose baseline is a string
TextBaselineDoc ==
    JDict(<<Item(K("revenue"),
                 JDict(<<Item(K("daily"), JDict(<<Item(K("baseline"), JStr(K("high")))>>))>>))>>)

\* documents of no recognised shape
ScalarDoc == JInt(5)
ListDoc == JList(<<JStr(K("x"))>>)
EmptyDoc == JDict(<<>>)

\* the contents a present file of the catalogue may have
Contents(key) ==
    CASE key = "behavioral_anomalies" ->
            <<Unreadable, File(AnomalyDoc), File(ScalarDoc), File(EmptyDoc)>>
      [] key = "customer_comprehensive" ->
            <<Unreadable, File(BaselineDoc), File(ListDoc)>>
      [] key = "customer_segments" ->
            <<Unreadable, File(SegmentDoc), File(ScalarDoc)>>
      [] key \in MetricTreeKeys ->
            <<Unreadable, File(MetricDoc), File(TextBaselineDoc), File(ListDoc)>>
      [] OTHER -> <<Unreadable, File(MetricDoc)>>

\* the longest list of contents
MostContents ==
    CHOOSE n \in 1..8 : /\ \A key \in CatalogueKeys : Len(Contents(key)) <= n
                        /\ \E key \in CatalogueKeys : Len(Contents(key)) = n

Init ==
    /\ NewConverter
    /\ pc = "start"
    /\ json_files = <<>> /\ idx = 0
    /\ output = <<>> /\ write_error = FALSE /\ result = "none"
    /\ arg = JNone /\ ret = <<>>
    /\ \E present \in {S \in SUBSET CatalogueKeys : Cardinality(S) <= MaxPresent} :
          \E c \in [present -> 1..MostContents] :
              /\ \A key \in present : c[key] <= Len(Contents(key))
              /\ files = [key \in CatalogueKeys |->
                            IF key \in present THEN Contents(key)[c[key]] ELSE Missing]

Next == Detect \/ Dispatch \/ Skip \/ Write

Spec == Init /\ [][Next]_vars

-----------------------------------------------------------------------------
(* Claims about convert_all (checked under Spec) *)

Tables == {"ml_baselines", "customer_anomalies", "customer_baselines",
           "segment_performance"}

\* the statements of a document, in order: those of the header, and one
\* INSERT for each INSERT line followed by its block of value tuples
RECURSIVE Statements(_, _)
Statements(doc, i) ==
    IF i > Len(doc) THEN <<>>
    ELSE (CASE doc[i].k = "header" -> HeaderStatements
            [] doc[i].k = "insert" /\ i < Len(doc) /\ doc[i + 1].k = "values" ->
                    <<InsertStatement(doc[i].table, doc[i + 1].tuples)>>
            [] OTHER -> <<>>) \o Statements(doc, i + 1)

\* a table: its rows with their AUTO_INCREMENT keys, and the next key
EmptyTable == [rows |-> <<>>, auto |-> 1]
StaleTable == [rows |-> <<[id |-> 7, tuple |-> <<Quoted(K("stale"))>>]>>, auto |-> 8]
EmptyDatabase == [table \in Tables |-> EmptyTable]
PriorDatabases == [Tables -> {EmptyTable, StaleTable}]

Execute(db, stmt) ==
    LET tb == db[stmt.table]
    IN  CASE stmt.op = "truncate" -> [db EXCEPT ![stmt.table] = EmptyTable]
          [] stmt.op = "reset" ->
                [db EXCEPT ![stmt.table] =
                    [tb EXCEPT !.auto = IF Len(tb.rows) = 0 THEN 1 ELSE tb.auto]]
          [] stmt.op = "insert" ->
                [db EXCEPT ![stmt.table] =
                    [rows |-> tb.rows \o [j \in 1..Len(stmt.tuples) |->
                                            [id |-> tb.auto + j - 1, tuple |-> stmt.tuples[j]]],
                     auto |-> tb.auto + Len(stmt.tuples)]]

RECURSIVE Apply(_, _, _)
Apply(db, stmts, i) ==
    IF i > Len(stmts) THEN db ELSE Apply(Execute(db, stmts[i]), stmts, i + 1)

Produced == pc = "done" /\ result = "True"

\* C1: in every output document the TRUNCATE statements of all four tables
\* precede every INSERT, so applying the document to a database in any prior
\* state gives the table contents it gives on an empty database, and
\* applying it twice gives the contents of applying it once.
C1_TruncateBeforeInsert ==
    Produced =>
        LET stmts == Statements(output, 1)
        IN  /\ \A table \in Tables : \E t \in 1..Len(stmts) :
                  /\ stmts[t] = Truncate(table)
                  /\ \A j \in 1..Len(stmts) : stmts[j].op = "insert" => t < j
            /\ \A db \in PriorDatabases :
                  /\ Apply(db, stmts, 1) = Apply(EmptyDatabase, stmts, 1)
                  /\ Apply(Apply(db, stmts, 1), stmts, 1) = Apply(db, stmts, 1)

\* a document with an INSERT into customer_anomalies and one into ml_baselines
C1_Witness ==
    /\ Produced
    /\ \E i \in 1..Len(output) : output[i] = InsertInto("customer_anomalies")
    /\ \E i \in 1..Len(output) : output[i] = InsertInto("ml_baselines")

NoFilePresent == \A key \in CatalogueKeys : files[key].st = "missing"

\* C2: convert_all reports failure exactly when no catalogued file is present
\* (and then writes no document) or when the write of the document fails;
\* with a file present and the document written it reports success.
C2_FailureOnlyNoInputOrWrite ==
    /\ result = "False" <=> ((pc = "done" /\ NoFilePresent) \/ write_error)
    /\ (pc = "done" /\ NoFilePresent) => output = <<>>
    /\ (~NoFilePresent /\ output # <<>>) => result = "True"
    /\ pc = "done" => result \in {"True", "False"}

\* success although every present file is unreadable or has no processor
C2_Witness ==
    /\ Produced
    /\ \A key \in CatalogueKeys :
          files[key].st = "missing" \/ files[key].st = "unreadable" \/ ~HasProcessor(key)
    /\ \E key \in CatalogueKeys : files[key].st = "unreadable"
    /\ \E key \in CatalogueKeys : files[key].st = "ok"

\* the files of json_files the loop has loaded
Loaded == IF pc = "raised" THEN idx + 1 ELSE idx

Terminated == pc \in {"done", "raised"}

\* C3: a present file that cannot be read or parsed contributes no record and
\* no fragment, and every file after it in the catalogue is still loaded and
\* dispatched to its extractor.
C3_UnreadableFileDoesNotStopTheRun ==
    /\ \A key \in CatalogueKeys :
          (files[key].st = "unreadable" /\ (\A other \in CatalogueKeys \ {key} :
                                                files[other].st = "missing"))
            => sql_sections = <<>>
    /\ Terminated =>
          \A i \in 1..Len(json_files) :
              files[json_files[i]].st = "unreadable"
                => \A j \in (i + 1)..Len(json_files) : j <= Loaded

\* C4: for every parsed document no extractor raises and no exception
\* escapes convert_all; a document of no recognised shape yields no record.
C4_NoExceptionEscapes ==
    /\ pc # "raised"
    /\ (\A key \in CatalogueKeys :
            files[key].st = "ok" => files[key].doc \in {ScalarDoc, ListDoc, EmptyDoc})
          => \A i \in 1..Len(sql_sections) : sql_sections[i].k = "banner"

SectionOf(table) ==
    CASE table = "customer_anomalies" -> 1
      [] table = "customer_baselines" -> 2
      [] table = "segment_performance" -> 3
      [] table = "ml_baselines" -> 4

\* the catalogue keys whose files feed a table
FeedersOf(table) ==
    CASE table = "customer_anomalies" -> {"behavioral_anomalies"}
      [] table = "customer_baselines" -> {"customer_comprehensive"}
      [] table = "segment_performance" -> {"customer_segments"}
      [] table = "ml_baselines" -> MetricTreeKeys

OneAnomalyRecordOnly ==
    \A key \in CatalogueKeys :
        files[key] = IF key = "behavioral_anomalies" THEN File(AnomalyDoc) ELSE Missing

\* C9: the output document is the header, the fragments of the present files
\* in catalogue order, the footer: the section banners that occur are in
\* increasing order, every INSERT lies between header and footer, an entity
\* whose file is absent has no banner and no INSERT, and a run over a single
\* one-record anomaly file holds one Section 1 banner and one INSERT of one
\* tuple.
C9_DocumentOrder ==
    Produced =>
        LET n == Len(output)
            banners == {i \in 1..n : output[i].k = "banner"}
        IN  /\ n >= 2 /\ output[1] = Header /\ output[n] = Footer
            /\ \A i \in 2..(n - 1) : output[i].k \notin {"header", "footer"}
            /\ \A i, j \in banners :
                  i < j => SectionOf(output[i].table) < SectionOf(output[j].table)
            /\ \A i \in 1..n : output[i].k \in {"banner", "insert"} =>
                  /\ \E key \in FeedersOf(output[i].table) : files[key].st # "missing"
                  /\ \E b \in banners : b < i + 1 /\ output[b].table = output[i].table
            /\ OneAnomalyRecordOnly =>
                  /\ n = 6
                  /\ output[2] = Banner("customer_anomalies")
                  /\ output[3] = InsertInto("customer_anomalies")
                  /\ output[4].k = "values" /\ Len(output[4].tuples) = 1
                  /\ output[5] = Blank

\* the document of a run over a one-record anomaly file alone
C9_Witness == Produced /\ OneAnomalyRecordOnly

\* three sections in one document
C9_WitnessThreeSections ==
    /\ Produced
    /\ Cardinality({i \in 1..Len(output) : output[i].k = "banner"}) = 3

\* the positions of json_files loaded so far whose file reached
\* process_ml_baselines with data
Contributors ==
    {i \in 1..Loaded : /\ json_files[i] \in MetricTreeKeys
                       /\ Truthy(load_json_safe(files[json_files[i]]))}

\* C10: whichever metric-tree files are present, the Section 4 banner occurs
\* at most once, is emitted by the first contributor processed, and precedes
\* every INSERT INTO ml_baselines.
C10_Section4BannerOnce ==
    LET at == {i \in 1..Len(sql_sections) : sql_sections[i] = Banner("ml_baselines")}
    IN  /\ Cardinality(at) = (IF Contributors = {} THEN 0 ELSE 1)
        /\ section4_header_written <=> Contributors # {}
        /\ \A i \in 1..Len(sql_sections) :
              sql_sections[i] = InsertInto("ml_baselines") => \E b \in at : b < i
        /\ Produced =>
              Cardinality({i \in 1..Len(output) : output[i] = Banner("ml_baselines")}) <= 1

\* three metric-tree files contributed to one document, the first without
\* any record
C10_Witness ==
    /\ Produced
    /\ Cardinality(Contributors) = 3
    /\ \E i \in Contributors :
          /\ \A j \in Contributors : i <= j
          /\ files[json_files[i]] = File(ListDoc)
    /\ Cardinality({i \in 1..Len(output) : output[i] = InsertInto("ml_baselines")}) = 2

-----------------------------------------------------------------------------
(* Specification of the Value Sanitizer: escape_sql_string applied to one   *)
(* scalar drawn from the bounded input sets.                                *)

MaxStrLen == 3
MaxInt == 12

Alphabet == {QUOTE, DQUOTE, NL, CR, BSLASH, "a"}
Strings == UNION {[1..n -> Alphabet] : n \in 0..MaxStrLen}

InitSanitize ==
    /\ NewConverter
    /\ files = <<>> /\ json_files = <<>> /\ idx = 0
    /\ output = <<>> /\ write_error = FALSE /\ result = "none"
    /\ pc = "call"
    /\ ret = <<>>
    /\ \/ arg = JNone
       \/ \E b \in BOOLEAN : arg = JBool(b)
       \/ \E n \in -MaxInt..MaxInt : arg = JInt(n)
       \/ \E n \in -MaxInt..MaxInt : arg = JFloat(n, 10)
       \/ \E s \in Strings : arg = JStr(s)

Sanitize ==
    /\ pc = "call"
    /\ ret' = escape_sql_string(arg)
    /\ pc' = "return"
    /\ UNCHANGED <<files, json_files, idx, sql_sections, section4_header_written,
                   output, write_error, result, arg, calls>>

NextSanitize == Sanitize

SpecSanitize == InitSanitize /\ [][NextSanitize]_vars

-----------------------------------------------------------------------------
(* Claims about the Value Sanitizer (checked under SpecSanitize) *)

\* C5: for every boolean input escape_sql_string returns the text 1 for true
\* and 0 for false; for null it returns NULL; for an integer its decimal text.
C5_BooleanAsOneOrZero ==
    pc = "return" =>
        /\ arg.t = "bool" => ret = (IF arg.b THEN <<"1">> ELSE <<"0">>)
        /\ arg.t = "null" => ret = <<"NULL">>
        /\ arg.t = "int" => ret = <<IntText(arg.n)>>

\* the number of occurrences of token c in text
Count(text, c) == Cardinality({i \in 1..Len(text) : text[i] = c})

\* Reading w from position i inside a single-quoted SQL literal, where a
\* doubled quote stands for one quote: the position of the quote that closes
\* the literal, 0 when the literal is not closed.
RECURSIVE LiteralEnd(_, _)
LiteralEnd(w, i) ==
    IF i > Len(w) THEN 0
    ELSE IF w[i] # QUOTE THEN LiteralEnd(w, i + 1)
    ELSE IF i < Len(w) /\ w[i + 1] = QUOTE THEN LiteralEnd(w, i + 2)
    ELSE i

\* 'text' is exactly one SQL string literal, on one line
SingleLineLiteral(text) ==
    LET w == <<QUOTE>> \o text \o <<QUOTE>>
    IN  /\ LiteralEnd(w, 2) = Len(w)
        /\ \A i \in 1..Len(text) : text[i] \notin {NL, CR}

\* C6: for every string input the result of escape_sql_string holds no
\* newline and no carriage return, holds every single quote of the input
\* doubled, and wrapped in single quotes is one single-line SQL literal.
C6_StringIsOneLiteral ==
    (pc = "return" /\ arg.t = "str") =>
        /\ Count(ret, NL) = 0 /\ Count(ret, CR) = 0
        /\ Count(ret, QUOTE) = 2 * Count(arg.s, QUOTE)
        /\ SingleLineLiteral(ret)

\* a string with a quote and a line break has been sanitized
C6_Witness ==
    /\ pc = "return" /\ arg.t = "str"
    /\ Count(arg.s, QUOTE) > 0
    /\ Count(arg.s, NL) + Count(arg.s, CR) > 0

-----------------------------------------------------------------------------
(* Specification of one extractor call on a new converter, the document     *)
(* drawn from lists of 0 to 2 * batch_size + 1 records under each container *)
(* key, bare lists, metric trees and scalars.                               *)

RecordCounts == {0, 1, batch_size - 1, batch_size, batch_size + 1,
                 2 * batch_size, 2 * batch_size + 1}

ContainerKeys ==
    {"customer_anomalies", "behavioral_anomalies", "anomalies",
     "customer_intelligence_records", "customer_baselines", "customers",
     "customerintelligencerecords",
     "channel_performance", "segment_baselines", "segmentbaselines",
     "records"}

\* the record at position i of a list
RecordAt(i) == JDict(<<Item(K("customer_id"), JStr(<<"C" \o IntText(i)>>))>>)

\* n records, after a leading entry that is no mapping when lead = 1
RecordList(n, lead) ==
    JList([i \in 1..(n + lead) |->
            IF lead = 1 /\ i = 1 THEN JStr(K("note")) ELSE RecordAt(i)])

\* one dimension of n scalar metrics
MetricTree(n) ==
    JDict(<<Item(K("sales"),
                 JDict([j \in 1..n |-> Item(<<"m" \o IntText(j)>>, JInt(j))]))>>)

InitExtract ==
    /\ NewConverter
    /\ files = <<>> /\ json_files = <<>> /\ idx = 0
    /\ output = <<>> /\ write_error = FALSE /\ result = "none"
    /\ pc = "extract"
    /\ ret = <<>>
    /\ \/ \E key \in ContainerKeys, n \in RecordCounts, lead \in {0, 1} :
             arg = JDict(<<Item(K(key), RecordList(n, lead))>>)
       \/ \E n \in RecordCounts, lead \in {0, 1} : arg = RecordList(n, lead)
       \/ \E n \in RecordCounts : arg = MetricTree(n)
       \/ arg = TextBaselineDoc
       \/ arg = ScalarDoc

\* an extractor is called on the document and returns or raises
Extracted(o, name) ==
    /\ sql_sections' = o.sql_sections
    /\ section4_header_written' = o.section4_header_written
    /\ pc' = IF o.raised THEN "raised" ELSE name
    /\ UNCHANGED <<files, json_files, idx, output, write_error, result, arg, ret, calls>>

ExtractAnomalies ==
    pc = "extract" /\ Extracted(process_behavioral_anomalies(Self, arg), "anomalies")

ExtractBaselines ==
    pc = "extract" /\ Extracted(process_customer_baselines(Self, arg), "baselines")

ExtractSegments ==
    pc = "extract" /\ Extracted(process_segment_performance(Self, arg), "segments")

ExtractMetrics ==
    pc = "extract" /\ Extracted(process_ml_baselines(Self, arg, K("ml_baselines")), "metrics")

NextExtract == ExtractAnomalies \/ ExtractBaselines \/ ExtractSegments \/ ExtractMetrics

SpecExtract == InitExtract /\ [][NextExtract]_vars

-----------------------------------------------------------------------------
(* Claims about the extractors and their INSERT batches (SpecExtract) *)

\* the blocks of value tuples of the fragments, in order
ValueBlocks(sections) == SelectSeq(sections, LAMBDA fr : fr.k = "values")

\* C7: for each of the four target tables and every input, each emitted
\* INSERT statement carries at most 1000 value tuples.
C7_AtMostBatchSizeTuples ==
    \A i \in 1..Len(sql_sections) :
        sql_sections[i].k = "values" => Len(sql_sections[i].tuples) <= 1000

\* the list an extractor locates in a document of this specification: the
\* list under one of the keys it reads; for the anomaly extractor (scan) also
\* the document itself, or a list under another key that starts with a
\* mapping (the records here all hold customer_id)
ListUnder(doc, keys, scan) ==
    IF doc.t = "list" /\ scan THEN doc.items
    ELSE IF doc.t = "dict" /\ Len(doc.kv) = 1 /\ doc.kv[1].v.t = "list"
              /\ \/ doc.kv[1].k \in keys
                 \/ scan /\ Len(doc.kv[1].v.items) > 0
                         /\ doc.kv[1].v.items[1].t = "dict"
         THEN doc.kv[1].v.items
    ELSE <<>>

\* the positions of the mappings in a list, ascending
MappingsOf(items) ==
    SelectSeq([i \in 1..Len(items) |-> i], LAMBDA i : items[i].t = "dict")

\* the tuples of all blocks, in emission order
RECURSIVE AllTuples(_)
AllTuples(blocks) ==
    IF Len(blocks) = 0 THEN <<>> ELSE blocks[1].tuples \o AllTuples(Tail(blocks))

\* the blocks are those of n records: ceil(n / 1000) of them, each after its
\* INSERT line, full except the last, holding the records in input order
BatchedInOrder(table, items) ==
    LET at == MappingsOf(items)
        n == Len(at)
        blocks == ValueBlocks(sql_sections)
        tuples == AllTuples(blocks)
        inserts == {i \in 1..Len(sql_sections) : sql_sections[i].k = "insert"}
    IN  /\ Len(blocks) = (n + 999) \div 1000
        /\ n = 0 => inserts = {}
        /\ n = 1000 => Len(blocks) = 1
        /\ n = 1001 => /\ Len(blocks) = 2
                       /\ Len(blocks[1].tuples) = 1000 /\ Len(blocks[2].tuples) = 1
        /\ Cardinality(inserts) = Len(blocks)
        /\ \A i \in inserts : /\ sql_sections[i] = InsertInto(table)
                              /\ i < Len(sql_sections) /\ sql_sections[i + 1].k = "values"
        /\ \A b \in 1..Len(blocks) :
              Len(blocks[b].tuples) = (IF b < Len(blocks) THEN 1000 ELSE n - 1000 * (b - 1))
        /\ Len(tuples) = n
        /\ \A j \in 1..n : tuples[j][1] = Quoted(items[at[j]].kv[1].v.s)

AnomalyKeys == {K("customer_anomalies"), K("behavioral_anomalies"), K("anomalies")}

BaselineKeys == {K("customer_intelligence_records"), K("customer_baselines"),
                 K("customers"), K("customerintelligencerecords")}

\* C8: for n mapping-typed records located by the anomaly extractor, and
\* likewise by the customer baseline extractor, exactly ceil(n / 1000) INSERT
\* blocks are emitted (none for 0, one for 1000, 1000 + 1 for 1001), and the
\* tuples of the blocks in emission order are the records in input order.
C8_BatchesOfRecords ==
    /\ pc = "anomalies" => BatchedInOrder("customer_anomalies",
                                          ListUnder(arg, AnomalyKeys, TRUE))
    /\ pc = "baselines" => BatchedInOrder("customer_baselines",
                                          ListUnder(arg, BaselineKeys, FALSE))

\* 1001 anomaly records after an entry that is no mapping, in two blocks
C8_Witness ==
    /\ pc = "anomalies"
    /\ Len(MappingsOf(ListUnder(arg, AnomalyKeys, TRUE))) = 1001
    /\ Len(ListUnder(arg, AnomalyKeys, TRUE)) = 1002
    /\ Len(ValueBlocks(sql_sections)) = 2

\* 1000 customer baseline records in one block
C8_WitnessBaselines ==
    /\ pc = "baselines"
    /\ Len(MappingsOf(ListUnder(arg, BaselineKeys, FALSE))) = 1000
    /\ Len(ValueBlocks(sql_sections)) = 1

-----------------------------------------------------------------------------
(* Specification of one extractor call on a new converter, the document     *)
(* drawn from small documents that vary the keys present, their order and   *)
(* the kind of value each holds.                                            *)

MaxItems == 2

\* the keys of a mapping document: the three the anomaly extractor names and
\* one it does not
LocateKeys == {"customer_anomalies", "behavioral_anomalies", "anomalies", "foo"}

\* the kinds of value under a key of a mapping document
ValueKinds == {"records", "plain", "empty", "text"}

\* the value of the given kind at position i of the document: a list of one
\* anomaly record naming customer C<i>, a list of one mapping with none of
\* the scanned fields, an empty list, or a string
ValueOfKind(kind, i) ==
    CASE kind = "records" ->
            JList(<<JDict(<<Item(K("customer_id"), JStr(<<"C" \o IntText(i)>>)),
                            Item(K("severity"), JStr(K("High")))>>)>>)
      [] kind = "plain" -> JList(<<JDict(<<Item(K("name"), JStr(<<"N" \o IntText(i)>>))>>)>>)
      [] kind = "empty" -> JList(<<>>)
      [] kind = "text" -> JStr(K("x"))

\* the mapping documents of at most MaxItems items with distinct keys
LocateDocs ==
    {JDict([i \in 1..n |-> Item(K(keys[i]), ValueOfKind(kinds[i], i))]) :
        <<n, keys, kinds>> \in
            {t \in UNION {{n} \X [1..n -> LocateKeys] \X [1..n -> ValueKinds] : n \in 1..MaxItems} :
                \A i, j \in 1..t[1] : i # j => t[2][i] # t[2][j]}}

\* top-level sequences
SequenceDocs == {ValueOfKind(kind, 1) : kind \in {"records", "plain"}}

MaxFields == 3

\* the candidate keys of an anomaly record
AnomalyFieldKeys ==
    <<"customer_id", "customerid", "severity", "anomaly_severity", "riskscore",
      "flags", "anomaly_flags">>

\* the value a record holds under a key: a value that is not null, distinct
\* for each key; the zero or the empty string; or null
FieldValue(key, kind) ==
    IF kind = "null" THEN JNone
    ELSE CASE key = "customer_id" -> JStr(IF kind = "value" THEN K("C1") ELSE <<>>)
           [] key = "customerid" -> JStr(IF kind = "value" THEN K("D1") ELSE <<>>)
           [] key = "severity" -> JStr(IF kind = "value" THEN K("High") ELSE <<>>)
           [] key = "anomaly_severity" -> JStr(IF kind = "value" THEN K("Low") ELSE <<>>)
           [] key = "riskscore" -> JInt(IF kind = "value" THEN 7 ELSE 0)
           [] key = "flags" -> JInt(IF kind = "value" THEN 3 ELSE 0)
           [] key = "anomaly_flags" -> JInt(IF kind = "value" THEN 2 ELSE 0)

\* the records holding at most MaxFields of the given keys
RecordsOver(fieldKeys, valueOf(_, _)) ==
    LET all == {fieldKeys[i] : i \in 1..Len(fieldKeys)}
    IN  {LET ks == SelectSeq(fieldKeys, LAMBDA k : k \in DOMAIN kinds)
         IN  JDict([i \in 1..Len(ks) |-> Item(K(ks[i]), valueOf(ks[i], kinds[ks[i]]))]) :
            kinds \in UNION {[S -> {"value", "falsy", "null"}] :
                                S \in {T \in SUBSET all : Cardinality(T) <= MaxFields}}}

\* a top-level sequence of one anomaly record
AnomalyRecordDocs == {JList(<<r>>) : r \in RecordsOver(AnomalyFieldKeys, FieldValue)}

\* the keys of a metric
MetricFieldKeys == <<"baseline", "mean", "upper_threshold", "max", "lower_threshold", "min">>

\* the value a metric holds under a key: a number, distinct for each key (2.5
\* for mean); zero; or null
MetricValue(key, kind) ==
    IF kind = "null" THEN JNone
    ELSE IF kind = "falsy" THEN JInt(0)
    ELSE CASE key = "baseline" -> JInt(100)
           [] key = "mean" -> JFloat(25, 10)
           [] key = "upper_threshold" -> JInt(150)
           [] key = "max" -> JInt(130)
           [] key = "lower_threshold" -> JInt(60)
           [] key = "min" -> JInt(70)

\* a two-level metric tree of one metric
TreeOf(metric_data) == JDict(<<Item(K("sales"), JDict(<<Item(K("m"), metric_data)>>))>>)

\* metrics that are mappings, and metrics that are bare scalars
MetricMappings == RecordsOver(MetricFieldKeys, MetricValue)
MetricScalars == {JInt(100), JInt(0), JInt(-10), JFloat(25, 10), JFloat(0, 10),
                  JStr(K("n/a")), JNone}

MetricDocs == {TreeOf(m) : m \in MetricMappings \cup MetricScalars} \cup {TextBaselineDoc}

\* the health score keys of a customer baseline record
HealthKeys == <<"customer_health_score", "health_score", "customerhealthscore">>

HealthValue(key, kind) ==
    IF kind = "null" THEN JNone
    ELSE IF kind = "falsy" THEN JInt(0)
    ELSE CASE key = "customer_health_score" -> JInt(80)
           [] key = "health_score" -> JInt(70)
           [] key = "customerhealthscore" -> JInt(60)

\* a mapping holding one customer baseline record under customers
BaselineRecordDocs ==
    {JDict(<<Item(K("customers"), JList(<<r>>))>>) : r \in RecordsOver(HealthKeys, HealthValue)}

FieldDocs ==
    LocateDocs \cup SequenceDocs \cup AnomalyRecordDocs \cup MetricDocs \cup BaselineRecordDocs

InitFields ==
    /\ NewConverter
    /\ files = <<>> /\ json_files = <<>> /\ idx = 0
    /\ output = <<>> /\ write_error = FALSE /\ result = "none"
    /\ pc = "extract"
    /\ ret = <<>>
    /\ arg \in FieldDocs

NextFields == ExtractAnomalies \/ ExtractBaselines \/ ExtractSegments \/ ExtractMetrics

SpecFields == InitFields /\ [][NextFields]_vars

-----------------------------------------------------------------------------
(* Claims about the record list and the fields of a record (SpecFields) *)

\* the record list the anomaly extractor is said to use: for a mapping, the
\* value of the first of the three named keys that is present (holding a
\* sequence); the first value in key order that is a sequence of mappings
\* whose first element holds a scanned field, only when none of the three
\* keys exists; a top-level sequence itself
NamedAnomalyKeys == <<K("customer_anomalies"), K("behavioral_anomalies"), K("anomalies")>>

ScanHit(value) ==
    /\ value.t = "list" /\ Len(value.items) > 0 /\ value.items[1].t = "dict"
    /\ \E field \in {K("customer_id"), K("customerid"), K("severity"), K("changes")} :
          \E j \in 1..Len(value.items[1].kv) : value.items[1].kv[j].k = field

StatedAnomalyRecords(doc) ==
    IF doc.t = "list" THEN doc.items
    ELSE IF doc.t # "dict" THEN <<>>
    ELSE
        LET at(i) == {j \in 1..Len(doc.kv) : doc.kv[j].k = NamedAnomalyKeys[i]}
            present == {i \in 1..Len(NamedAnomalyKeys) : at(i) # {}}
            lists == {i \in present : \A j \in at(i) : doc.kv[j].v.t = "list"}
            hits == {j \in 1..Len(doc.kv) : ScanHit(doc.kv[j].v)}
        IN  IF lists # {}
            THEN LET first == CHOOSE i \in lists : \A h \in lists : i <= h
                 IN  doc.kv[CHOOSE j \in at(first) : TRUE].v.items
            ELSE IF present # {} \/ hits = {} THEN <<>>
            ELSE doc.kv[CHOOSE j \in hits : \A h \in hits : j <= h].v.items

\* the customer_id column of a record that names its customer
CustomerColumn(record) ==
    Quoted(record.kv[CHOOSE j \in 1..Len(record.kv) : record.kv[j].k = K("customer_id")].v.s)

\* the records of a list that name their customer, in order
NamingRecords(items) ==
    SelectSeq(items, LAMBDA r : r.t = "dict" /\ \E j \in 1..Len(r.kv) : r.kv[j].k = K("customer_id"))

\* C11: for a mapping document the anomaly extractor takes its record list
\* from the first of the keys customer_anomalies, behavioral_anomalies,
\* anomalies that is present; the scan over the mapping's values is used only
\* if none of the three keys exists, and then selects the first value in key
\* order that is a sequence of mappings whose first element holds one of
\* customer_id, customerid, severity, changes; a top-level sequence is used
\* directly.  (The customers named in the emitted tuples are those of the
\* stated record list.)
C11_RecordListLocation ==
    (pc = "anomalies" /\ arg \in FieldDocs) =>
        LET stated == NamingRecords(StatedAnomalyRecords(arg))
            tuples == SelectSeq(AllTuples(ValueBlocks(sql_sections)),
                                LAMBDA tp : tp[1] # Quoted(K("UNKNOWN_0")))
        IN  /\ Len(tuples) = Len(stated)
            /\ \A j \in 1..Len(stated) : tuples[j][1] = CustomerColumn(stated[j])

\* the value of the first candidate key that is present in the record with a
\* value that is not null, the default when there is none
FirstPresent(record, candidates, default) ==
    LET at(i) == {j \in 1..Len(record.kv) : record.kv[j].k = K(candidates[i])}
        held == {i \in 1..Len(candidates) :
                    at(i) # {} /\ \A j \in at(i) : record.kv[j].v.t # "null"}
    IN  IF held = {} THEN default
        ELSE record.kv[CHOOSE j \in at(CHOOSE i \in held : \A h \in held : i <= h) : TRUE].v

\* C12: for every anomaly record each output field takes the value of the
\* first candidate key that is present with a value that is not null, in the
\* order severity, anomaly_severity, riskscore (default "Normal") for
\* severity, flags, anomaly_flags, riskscore (default 0) for flags, and
\* customer_id, customerid (default UNKNOWN_<index>) for customer_id; a
\* present earlier key is never overridden by a later candidate.
C12_FirstPresentCandidate ==
    (pc = "anomalies" /\ arg \in AnomalyRecordDocs) =>
        LET record == arg.items[1]
            tuples == AllTuples(ValueBlocks(sql_sections))
        IN  /\ Len(tuples) = 1
            /\ tuples[1][1] = Quoted(escape_sql_string(
                    FirstPresent(record, <<"customer_id", "customerid">>,
                                 JStr(K("UNKNOWN_0")))))
            /\ tuples[1][4] = Quoted(escape_sql_string(
                    FirstPresent(record, <<"severity", "anomaly_severity", "riskscore">>,
                                 JStr(K("Normal")))))
            /\ tuples[1][5] = Raw(PyStr(
                    FirstPresent(record, <<"flags", "anomaly_flags", "riskscore">>,
                                 JInt(0))))

\* the text is a decimal rendering of the number num/den (den a power of ten)
Denotes(text, num, den) ==
    \/ text = <<FloatText(num, den)>>
    \/ num % den = 0 /\ text = <<IntText(num \div den)>>

\* the text is a rendering of value * tenths / 10
DenotesScaled(text, value, tenths) ==
    CASE value.t = "int" -> Denotes(text, value.n * tenths, 10)
      [] value.t = "float" -> Denotes(text, value.num * tenths, value.den * 10)

\* the first of the keys that the metric holds, 0 when it holds none
HeldKey(metric, keys) ==
    LET held == {i \in 1..Len(keys) : \E j \in 1..Len(metric.kv) : metric.kv[j].k = K(keys[i])}
    IN  IF held = {} THEN 0 ELSE CHOOSE i \in held : \A h \in held : i <= h

ValueUnder(metric, key) ==
    metric.kv[CHOOSE j \in 1..Len(metric.kv) : metric.kv[j].k = K(key)].v

\* the threshold column of a metric mapping: the value of the first of the
\* two keys, else the baseline scaled, 0 when the baseline is zero or absent
StatedThreshold(text, metric, keys, baseline, tenths) ==
    IF HeldKey(metric, keys) # 0
    THEN text = PyStr(ValueUnder(metric, keys[HeldKey(metric, keys)]))
    ELSE IF baseline.t = "null" \/ ~Truthy(baseline) THEN Denotes(text, 0, 1)
    ELSE DenotesScaled(text, baseline, tenths)

\* C13: for every metric of a two-level metric tree the baseline is the value
\* of baseline, else mean, else 0; threshold_upper is upper_threshold, else
\* max, else baseline x 1.2; threshold_lower is lower_threshold, else min,
\* else baseline x 0.8; when the baseline is zero or absent the synthesized
\* thresholds are both 0; a bare numeric scalar is a baseline with
\* synthesized thresholds.
C13_ThresholdSynthesis ==
    (pc = "metrics" /\ arg \in MetricDocs) =>
        LET metric == arg.kv[1].v.kv[1].v
            tuples == AllTuples(ValueBlocks(sql_sections))
            row == tuples[1]
        IN  /\ Len(tuples) = 1
            /\ metric.t = "dict" =>
                  LET b == HeldKey(metric, <<"baseline", "mean">>)
                      baseline == IF b = 0 THEN JInt(0)
                                  ELSE ValueUnder(metric, <<"baseline", "mean">>[b])
                  IN  /\ IF b = 0 THEN Denotes(row[3].text, 0, 1)
                          ELSE row[3].text = PyStr(baseline)
                      /\ StatedThreshold(row[4].text, metric,
                                         <<"upper_threshold", "max">>, baseline, 12)
                      /\ StatedThreshold(row[5].text, metric,
                                         <<"lower_threshold", "min">>, baseline, 8)
            /\ metric.t \in {"int", "float"} =>
                  /\ DenotesScaled(row[3].text, metric, 10)
                  /\ DenotesScaled(row[4].text, metric, 12)
                  /\ DenotesScaled(row[5].text, metric, 8)

\* baseline 100 with no thresholds has given 120 and 80
C13_Witness ==
    /\ pc = "metrics"
    /\ arg = TreeOf(JDict(<<Item(K("baseline"), JInt(100))>>))
    /\ LET row == AllTuples(ValueBlocks(sql_sections))[1]
       IN  row[3] = Raw(<<"100">>) /\ row[4] = Raw(<<"120.0">>) /\ row[5] = Raw(<<"80.0">>)

\* baseline 0 with no thresholds has given 0 and 0
C13_WitnessZero ==
    /\ pc = "metrics"
    /\ arg = TreeOf(JDict(<<Item(K("baseline"), JInt(0))>>))
    /\ LET row == AllTuples(ValueBlocks(sql_sections))[1]
       IN  row[4] = Raw(<<"0">>) /\ row[5] = Raw(<<"0">>)

\* C14: for every customer baseline record the emitted health_score and
\* customer_health_score columns carry the same value: the record's
\* customer_health_score if present, otherwise its health_score, otherwise
\* the default 50.0.
C14_HealthScoreColumnsAgree ==
    (pc = "baselines" /\ arg \in BaselineRecordDocs) =>
        LET record == arg.kv[1].v.items[1]
            tuples == AllTuples(ValueBlocks(sql_sections))
            h == HeldKey(record, <<"customer_health_score", "health_score">>)
            stated == IF h = 0 THEN <<"50.0">>
                      ELSE PyStr(ValueUnder(record, <<"customer_health_score", "health_score">>[h]))
        IN  /\ Len(tuples) = 1
            /\ tuples[1][2] = tuples[1][9]
            /\ tuples[1][2] = Raw(stated)

-----------------------------------------------------------------------------
(* Specification of a sequence of at most MaxInvocations extractor calls on *)
(* one converter, in any order, each on any of the documents.  An extractor *)
(* that raises leaves the converter as it was at the raise, and the next    *)
(* call finds it so.                                                        *)

MaxInvocations == 3

InvocationDocs ==
    {AnomalyDoc, BaselineDoc, SegmentDoc, MetricDoc, TextBaselineDoc, ScalarDoc, ListDoc,
     EmptyDoc}

InitInvocations ==
    /\ NewConverter
    /\ files = <<>> /\ json_files = <<>> /\ idx = 0
    /\ output = <<>> /\ write_error = FALSE /\ result = "none"
    /\ pc = "new"
    /\ arg = JNone /\ ret = <<>>

\* one more extractor call on the converter
Invoked(o, name, data) ==
    /\ sql_sections' = o.sql_sections
    /\ section4_header_written' = o.section4_header_written
    /\ pc' = IF o.raised THEN "raised" ELSE name
    /\ arg' = data
    /\ calls' = calls + 1
    /\ UNCHANGED <<files, json_files, idx, output, write_error, result, ret>>

InvokeAnomalies ==
    /\ calls < MaxInvocations
    /\ \E data \in InvocationDocs :
          Invoked(process_behavioral_anomalies(Self, data), "anomalies", data)

InvokeBaselines ==
    /\ calls < MaxInvocations
    /\ \E data \in InvocationDocs :
          Invoked(process_customer_baselines(Self, data), "baselines", data)

InvokeSegments ==
    /\ calls < MaxInvocations
    /\ \E data \in InvocationDocs :
          Invoked(process_segment_performance(Self, data), "segments", data)

InvokeMetrics ==
    /\ calls < MaxInvocations
    /\ \E data \in InvocationDocs, file_type \in {"ml_baselines", "category_baselines"} :
          Invoked(process_ml_baselines(Self, data, K(file_type)), "metrics", data)

NextInvocations == InvokeAnomalies \/ InvokeBaselines \/ InvokeSegments \/ InvokeMetrics

SpecInvocations == InitInvocations /\ [][NextInvocations]_vars

-----------------------------------------------------------------------------
(* Claims about the state shared by the extractors (SpecInvocations) *)

\* a is a prefix of b
IsPrefix(a, b) == Len(a) <= Len(b) /\ SubSeq(b, 1, Len(a)) = a

\* C15: across any sequence of extractor invocations on one converter,
\* sql_sections only grows by appending (its content before an invocation is
\* an unchanged prefix of its content after), section4_header_written once
\* true never returns to false, and the anomaly, customer baseline and
\* segment performance extractors leave that flag unchanged.
C15_AppendOnlyAndMonotoneFlag ==
    [][/\ IsPrefix(sql_sections, sql_sections')
       /\ section4_header_written => section4_header_written'
       /\ pc' \in {"anomalies", "baselines", "segments"} =>
             section4_header_written' = section4_header_written]_vars

\* a segment performance call has appended its fragments after those of a
\* metric-tree call and found the flag set
C15_Witness ==
    /\ pc = "segments" /\ arg = SegmentDoc
    /\ section4_header_written
    /\ \E i, j \in 1..Len(sql_sections) :
          /\ i < j
          /\ sql_sections[i] = Banner("ml_baselines")
          /\ sql_sections[j] = Banner("segment_performance")

-----------------------------------------------------------------------------
(* Specification of convert_all called again on the same converter with the *)
(* processed folder unchanged, over a folder holding at most                *)
(* MaxPresentRepeat catalogued files.                                       *)

MaxPresentRepeat == 2
MaxRepeats == 1

InitRepeat ==
    /\ NewConverter
    /\ pc = "start"
    /\ json_files = <<>> /\ idx = 0
    /\ output = <<>> /\ write_error = FALSE /\ result = "none"
    /\ arg = JNone /\ ret = <<>>
    /\ \E present \in {S \in SUBSET CatalogueKeys : Cardinality(S) <= MaxPresentRepeat} :
          \E c \in [present -> 1..MostContents] :
              /\ \A key \in present : c[key] <= Len(Contents(key))
              /\ files = [key \in CatalogueKeys |->
                            IF key \in present THEN Contents(key)[c[key]] ELSE Missing]

\* convert_all has returned and is called again: nothing in lines 539-552
\* touches self.sql_sections or self.section4_header_written, and the written
\* file stays in place until the next write
ConvertAgain ==
    /\ pc = "done" /\ calls < MaxRepeats
    /\ pc' = "start"
    /\ calls' = calls + 1
    /\ result' = "none" /\ write_error' = FALSE
    /\ UNCHANGED <<files, json_files, idx, sql_sections, section4_header_written,
                   output, arg, ret>>

NextRepeat == Detect \/ Dispatch \/ Skip \/ Write \/ ConvertAgain

SpecRepeat == InitRepeat /\ [][NextRepeat]_vars

-----------------------------------------------------------------------------
(* Claims about a repeated convert_all (SpecRepeat) *)

\* C16: when convert_all is called twice on the same converter with the input
\* files unchanged, the second output document holds the same sequence of
\* section fragments between header and footer as the first: no fragment of
\* the first call is carried into the second, and the Section 4 banner is in
\* the second whenever it was in the first.  (At the write of the second
\* call, the document written equals the one the first call left.)
C16_SecondDocumentSameFragments ==
    [][(calls = 1 /\ pc = "loop" /\ pc' = "done" /\ result' = "True" /\ output # <<>>)
            => output' = output]_vars

=============================================================================
